---- MODULE Spec2Model ----
(***************************************************************************)
(* Model of the vital-sign monitoring scripts:                             *)
(*   visualise_signals_realtime2.py  (RealTimeDataBuffer, live alerts)     *)
(*   visualise_signals.py            (batch alerts)                        *)
(*   simple_ppg_eeg_display.py       (RealTimeDisplay, peaks, heart rate)  *)
(*                                                                         *)
(* Floats are modelled by integers plus the value NaN, whose comparisons   *)
(* are all false, as in IEEE 754.  Python's None for a missing EEG value   *)
(* is the empty tuple, a present value v is <<v>>.  Sequences are 1-based: *)
(* a Python index i is i + 1 here.                                         *)
(***************************************************************************)
EXTENDS Integers, Sequences, FiniteSets, TLC

VARIABLES
    \* RealTimeDataBuffer and the monitoring loop (visualise_signals_realtime2.py)
    window_size, time_buffer, hr_buffer, spo2_buffer, eeg_buffer,
    fed,        \* every row handed to update so far, in order (the CSV replayed)
    plot,       \* what the last update_plot computed and drew
    running,    \* the loop of simulate_realtime_monitoring has not ended
    \* RealTimeDisplay (simple_ppg_eeg_display.py)
    time_data, ppg_raw, eeg_raw, ppg_filt, eeg_filt, heart_rate, peaks,
    clock,      \* calls of update so far; time.time() - start_time in frames
    branch,     \* the path the last call of update took
    odd,        \* frames so far that were idle or carried a NaN
    \* a single call of a pure function, and what it returned
    call, ret, pc

bufVars == <<window_size, time_buffer, hr_buffer, spo2_buffer, eeg_buffer,
             fed, plot, running>>
dispVars == <<time_data, ppg_raw, eeg_raw, ppg_filt, eeg_filt, heart_rate,
              peaks, clock, branch, odd>>
pureVars == <<call, ret, pc>>
vars == <<window_size, time_buffer, hr_buffer, spo2_buffer, eeg_buffer,
          fed, plot, running,
          time_data, ppg_raw, eeg_raw, ppg_filt, eeg_filt, heart_rate,
          peaks, clock, branch, odd,
          call, ret, pc>>

----------------------------------------------------------------------------
(* Bounds of the model *)

\* largest window_size the buffer is constructed with
MaxCap == 3
\* rows replayed through the monitoring loop in one run
MaxPush == 4
\* longest series handed to draw_alert_boxes in one call
MaxSeries == 5
\* longest series handed to detect_abnormalities_* in one call
MaxRows == 2
\* maxlen of the deques of RealTimeDisplay: 3000 in the source
\* (simple_ppg_eeg_display.py:102-104), scaled down here; it stays above the
\* 50 samples update waits for and leaves room for two peaks 50 apart
DequeMaxLen == 54
\* calls of RealTimeDisplay.update in one run
MaxFrames == 56
\* frames of one run that are idle or carry a NaN
MaxOdd == 1

----------------------------------------------------------------------------
(* Floats *)

\* float('nan'): what a CSV cell or a serial field can parse to
NaN == 99999

Lt(a, b) == a # NaN /\ b # NaN /\ a < b
Gt(a, b) == a # NaN /\ b # NaN /\ a > b

----------------------------------------------------------------------------
(* collections.deque(maxlen=...) *)

Min(a, b) == IF a < b THEN a ELSE b

\* the last n items of s
LastN(s, n) == SubSeq(s, Len(s) - n + 1, Len(s))

\* deque(iterable, maxlen=maxlen): the last maxlen items of the iterable
deque(iterable, maxlen) == LastN(iterable, Min(Len(iterable), maxlen))

\* (mutant) a full deque refuses the new item instead of dropping the oldest
append_drop_newest(d, v, maxlen) ==
    IF Len(d) >= maxlen THEN d ELSE Append(d, v)

\* deque.append: a full deque drops its leftmost item first
append(d, v, maxlen) ==
    IF maxlen = 0 THEN d
    ELSE IF Len(d) >= maxlen THEN Append(Tail(d), v)
    ELSE Append(d, v)

----------------------------------------------------------------------------
(* visualise_signals_realtime2.py: detection and alert boxes *)

\* (mutant) the upper heart-rate bound is forgotten
live_abnormal_hr_low_only(hr_data) ==
    [i \in 1..Len(hr_data) |-> Lt(hr_data[i], 50)]

\* np.logical_or(hr < 50, hr > 120), elementwise
live_abnormal_hr(hr_data) ==
    [i \in 1..Len(hr_data) |-> Lt(hr_data[i], 50) \/ Gt(hr_data[i], 120)]

\* (mutant) 90 % itself counts as abnormal
live_abnormal_spo2_inclusive(spo2_data) ==
    [i \in 1..Len(spo2_data) |-> Lt(spo2_data[i], 90) \/ spo2_data[i] = 90]

\* np.array(spo2_data) < 90, elementwise
live_abnormal_spo2(spo2_data) ==
    [i \in 1..Len(spo2_data) |-> Lt(spo2_data[i], 90)]

live_detect_abnormalities_p(hr_data, spo2_data) ==
    [abnormal_hr |-> live_abnormal_hr(hr_data),
     abnormal_spo2 |-> live_abnormal_spo2(spo2_data)]

live_detect_abnormalities_bis(eeg_data, low_threshold, high_threshold) ==
    [i \in 1..Len(eeg_data) |->
        Lt(eeg_data[i], low_threshold) \/ Gt(eeg_data[i], high_threshold)]

\* np.where(abnormal_series)[0]: the true positions, ascending
RECURSIVE where(_, _)
where(series, i) ==
    IF i > Len(series) THEN <<>>
    ELSE IF series[i] THEN <<i>> \o where(series, i + 1)
    ELSE where(series, i + 1)

\* patches.Rectangle((time[start], ymin), time[end] - time[start], ...)
Rectangle(time, start, end) ==
    [x |-> time[start], width |-> time[end] - time[start]]

\* (mutant) a run is cut where the time stamps are not one apart
RECURSIVE live_box_loop_by_time(_, _, _, _, _, _)
live_box_loop_by_time(time_array, abnormal_indices, k, start_idx, prev_idx, patches) ==
    IF k > Len(abnormal_indices)
    THEN Append(patches, Rectangle(time_array, start_idx, prev_idx))
    ELSE LET idx == abnormal_indices[k] IN
         IF time_array[idx] # time_array[prev_idx] + 1
         THEN live_box_loop_by_time(time_array, abnormal_indices, k + 1, idx, idx,
                  Append(patches, Rectangle(time_array, start_idx, prev_idx)))
         ELSE live_box_loop_by_time(time_array, abnormal_indices, k + 1,
                  start_idx, idx, patches)

\* the for loop over abnormal_indices[1:], then the closing add_patch
RECURSIVE live_box_loop(_, _, _, _, _, _)
live_box_loop(time_array, abnormal_indices, k, start_idx, prev_idx, patches) ==
    IF k > Len(abnormal_indices)
    THEN Append(patches, Rectangle(time_array, start_idx, prev_idx))
    ELSE LET idx == abnormal_indices[k] IN
         IF idx # prev_idx + 1
         THEN live_box_loop(time_array, abnormal_indices, k + 1, idx, idx,
                  Append(patches, Rectangle(time_array, start_idx, prev_idx)))
         ELSE live_box_loop(time_array, abnormal_indices, k + 1, start_idx, idx,
                  patches)

\* the patches draw_alert_boxes adds to the axis, in the order it adds them
live_draw_alert_boxes(time_series, abnormal_series) ==
    IF Len(time_series) = 0 \/ ~(\E i \in 1..Len(abnormal_series) : abnormal_series[i])
    THEN <<>>
    ELSE LET abnormal_indices == where(abnormal_series, 1) IN
         IF Len(abnormal_indices) = 0 THEN <<>>
         ELSE live_box_loop(time_series, abnormal_indices, 2,
                  abnormal_indices[1], abnormal_indices[1], <<>>)

----------------------------------------------------------------------------
(* visualise_signals.py: detection and alert boxes on a whole data frame *)

\* (df['HeartRate'] < 50) | (df['HeartRate'] > 120)  and  df['SPO2'] < 90
batch_detect_abnormalities_p(df) ==
    [abnormal_hr |->
        [i \in 1..Len(df.HeartRate) |->
            Lt(df.HeartRate[i], 50) \/ Gt(df.HeartRate[i], 120)],
     abnormal_spo2 |->
        [i \in 1..Len(df.SPO2) |-> Lt(df.SPO2[i], 90)]]

batch_detect_abnormalities_bis(df, low_threshold, high_threshold) ==
    [i \in 1..Len(df.EEG) |->
        Lt(df.EEG[i], low_threshold) \/ Gt(df.EEG[i], high_threshold)]

\* for i in range(1, len(abnormal_indices)), then the closing add_patch
RECURSIVE batch_box_loop(_, _, _, _, _, _)
batch_box_loop(time_series, abnormal_indices, i, start, end, patches) ==
    IF i > Len(abnormal_indices)
    THEN Append(patches, Rectangle(time_series, start, end))
    ELSE IF abnormal_indices[i] # abnormal_indices[i - 1] + 1
         THEN batch_box_loop(time_series, abnormal_indices, i + 1,
                  abnormal_indices[i], abnormal_indices[i],
                  Append(patches, Rectangle(time_series, start, end)))
         ELSE batch_box_loop(time_series, abnormal_indices, i + 1,
                  start, abnormal_indices[i], patches)

batch_draw_alert_boxes(time_series, abnormal_series) ==
    LET abnormal_indices == where(abnormal_series, 1) IN
    IF Len(abnormal_indices) = 0 THEN <<>>
    ELSE batch_box_loop(time_series, abnormal_indices, 2,
             abnormal_indices[1], abnormal_indices[1], <<>>)

----------------------------------------------------------------------------
(* simple_ppg_eeg_display.py: peak detection and heart rate *)

Eq(a, b) == a # NaN /\ b # NaN /\ a = b

\* the first index from i_ahead on, below i_max, whose value differs from x[i]
RECURSIVE plateau_end(_, _, _)
plateau_end(x, i, i_ahead) ==
    IF i_ahead < Len(x) /\ Eq(x[i_ahead], x[i])
    THEN plateau_end(x, i, i_ahead + 1)
    ELSE i_ahead

\* scipy.signal._peak_finding_utils._local_maxima_1d: the midpoints of the
\* strict local maxima (plateaus included); the first and the last sample
\* are never maxima
RECURSIVE local_maxima(_, _, _)
local_maxima(x, i, midpoints) ==
    IF i >= Len(x) THEN midpoints
    ELSE IF Lt(x[i - 1], x[i])
         THEN LET i_ahead == plateau_end(x, i, i + 1) IN
              IF Lt(x[i_ahead], x[i])
              THEN local_maxima(x, i_ahead + 1,
                       Append(midpoints, (i + (i_ahead - 1)) \div 2))
              ELSE local_maxima(x, i + 1, midpoints)
         ELSE local_maxima(x, i + 1, midpoints)

RECURSIVE SumSeq(_)
SumSeq(x) == IF x = <<>> THEN 0 ELSE Head(x) + SumSeq(Tail(x))

HasNaN(x) == \E i \in 1..Len(x) : x[i] = NaN

\* v >= np.mean(x) + 0.5 * np.std(x), in exact arithmetic: with n = len(x),
\* S = sum(x) and Q = sum(x*x) the mean is S/n and the (population) variance
\* (n*Q - S*S)/(n*n), so the test is n*v - S >= 0 and 4*(n*v - S)^2 >= n*Q - S*S.
\* A NaN sample makes the threshold NaN and the test false.
above_threshold(x, v) ==
    IF HasNaN(x) \/ v = NaN THEN FALSE
    ELSE LET n == Len(x)
             S == SumSeq(x)
             Q == SumSeq([i \in 1..n |-> x[i] * x[i]])
             d == n * v - S
         IN d >= 0 /\ 4 * d * d >= n * Q - S * S

\* the items of s whose position satisfies keep, in order
RECURSIVE select(_, _, _)
select(s, keep, i) ==
    IF i > Len(s) THEN <<>>
    ELSE IF keep[i] THEN <<s[i]>> \o select(s, keep, i + 1)
    ELSE select(s, keep, i + 1)

\* scipy.signal._peak_finding_utils._select_by_peak_distance: peaks are
\* visited from the highest to the lowest (np.argsort read backwards; among
\* equal heights the later peak first), and a visited peak that is still
\* kept drops every peak closer than distance to it
RECURSIVE select_by_peak_distance(_, _, _, _, _)
select_by_peak_distance(pks, x, distance, keep, visited) ==
    LET left == { j \in 1..Len(pks) : keep[j] /\ j \notin visited } IN
    IF left = {} THEN keep
    ELSE LET j == CHOOSE c \in left : \A k \in left :
                      \/ x[pks[k]] < x[pks[c]]
                      \/ (x[pks[k]] = x[pks[c]] /\ k <= c)
             dropped == [k \in 1..Len(pks) |->
                           /\ keep[k]
                           /\ \/ k = j
                              \/ (k < j /\ pks[j] - pks[k] >= distance)
                              \/ (k > j /\ pks[k] - pks[j] >= distance)]
         IN select_by_peak_distance(pks, x, distance, dropped, visited \cup {j})

\* scipy.signal.find_peaks(x, height=..., distance=...): a distance below 1
\* raises ValueError
find_peaks(x, distance) ==
    IF distance < 1 THEN [raised |-> TRUE, peaks |-> <<>>]
    ELSE LET maxima == local_maxima(x, 2, <<>>)
             high == select(maxima,
                            [k \in 1..Len(maxima) |-> above_threshold(x, x[maxima[k]])],
                            1)
             keep == select_by_peak_distance(high, x, distance,
                         [k \in 1..Len(high) |-> TRUE], {})
         IN [raised |-> FALSE, peaks |-> select(high, keep, 1)]

\* detect_peaks(ppg_data, rate); the peaks are positions of ppg_data
detect_peaks(ppg_data, rate) ==
    IF Len(ppg_data) < 10 THEN [raised |-> FALSE, peaks |-> <<>>]
    ELSE LET dist == rate \div 2 IN find_peaks(ppg_data, dist)

\* np.diff(pks)
diff(pks) == [i \in 1..(Len(pks) - 1) |-> pks[i + 1] - pks[i]]

\* the float 0 the function returns for no estimate
Zero == [num |-> 0, den |-> 1]

\* (mutant) the bounds 40 and 200 themselves are accepted
calculate_heart_rate_inclusive(pks, rate) ==
    IF Len(pks) < 2 THEN Zero
    ELSE LET intervals == diff(pks)
             num == 60 * rate * Len(intervals)
             den == SumSeq(intervals)
         IN IF 40 * den <= num /\ num <= 200 * den
            THEN [num |-> num, den |-> den] ELSE Zero

\* calculate_heart_rate(pks, rate).  The result is the rational num/den:
\* intervals = diff(pks)/rate has mean sum(diff)/(rate*len), so
\* hr = 60/mean = 60*rate*len(intervals)/sum(diff(pks)).
calculate_heart_rate(pks, rate) ==
    IF Len(pks) < 2 THEN Zero
    ELSE LET intervals == diff(pks)
             num == 60 * rate * Len(intervals)
             den == SumSeq(intervals)
         IN IF 40 * den < num /\ num < 200 * den
            THEN [num |-> num, den |-> den] ELSE Zero

----------------------------------------------------------------------------
(* RealTimeDataBuffer and the monitoring loop *)

get_data ==
    [Time |-> time_buffer, HeartRate |-> hr_buffer,
     SPO2 |-> spo2_buffer, EEG |-> eeg_buffer]

NoPlot ==
    [abnormal_hr |-> <<>>, abnormal_spo2 |-> <<>>, abnormal_eeg |-> <<>>,
     boxes_hr |-> <<>>, boxes_spo2 |-> <<>>, boxes_eeg |-> <<>>,
     raised |-> FALSE]

\* update_plot on the data get_data returns.  ax.plot(x, y) raises ValueError
\* when x and y differ in length; the HR and SpO2 panels are drawn before the
\* EEG panel.
update_plot(data, old, low_eeg, high_eeg) ==
    IF Len(data.Time) = 0 THEN old
    ELSE
      LET p == live_detect_abnormalities_p(data.HeartRate, data.SPO2)
          drawn == [NoPlot EXCEPT
                      !.abnormal_hr = p.abnormal_hr,
                      !.abnormal_spo2 = p.abnormal_spo2,
                      !.boxes_hr = live_draw_alert_boxes(data.Time, p.abnormal_hr),
                      !.boxes_spo2 = live_draw_alert_boxes(data.Time, p.abnormal_spo2)]
      IN
      IF Len(data.EEG) > 0
      THEN IF Len(data.EEG) # Len(data.Time)
           THEN [drawn EXCEPT !.raised = TRUE]
           ELSE LET abnormal_eeg ==
                        live_detect_abnormalities_bis(data.EEG, low_eeg, high_eeg)
                IN [drawn EXCEPT
                      !.abnormal_eeg = abnormal_eeg,
                      !.boxes_eeg = live_draw_alert_boxes(data.Time, abnormal_eeg)]
      ELSE drawn

\* the (HeartRate, SPO2, EEG) cells of the rows replayed
Cells ==
    { [hr |-> 60, spo2 |-> 95, eeg |-> <<50>>],
      [hr |-> 130, spo2 |-> 85, eeg |-> <<90>>],
      [hr |-> NaN, spo2 |-> 95, eeg |-> <<>>] }

LastTime == IF Len(fed) = 0 THEN -1 ELSE fed[Len(fed)].time

\* the Time cell of the next row: later than, equal to, or before the last one
NextTimes == {LastTime + 1, LastTime, -1}

BufInit ==
    /\ window_size \in 1..MaxCap
    /\ time_buffer = <<>>
    /\ hr_buffer = <<>>
    /\ spo2_buffer = <<>>
    /\ eeg_buffer = <<>>
    /\ fed = <<>>
    /\ plot = NoPlot
    /\ running = TRUE

\* RealTimeDataBuffer.update
BufferUpdate(time_val, hr_val, spo2_val, eeg_val) ==
    /\ time_buffer' = append(time_buffer, time_val, window_size)
    /\ hr_buffer' = append(hr_buffer, hr_val, window_size)
    /\ spo2_buffer' = append(spo2_buffer, spo2_val, window_size)
    /\ eeg_buffer' = IF eeg_val # <<>>
                     THEN append(eeg_buffer, eeg_val[1], window_size)
                     ELSE eeg_buffer

\* one iteration of the loop of simulate_realtime_monitoring:
\* data_buffer.update(...) and then update_plot(...); an exception ends the loop
MonitorStep(time_val, c) ==
    /\ running
    /\ Len(fed) < MaxPush
    /\ BufferUpdate(time_val, c.hr, c.spo2, c.eeg)
    /\ fed' = Append(fed, [time |-> time_val, hr |-> c.hr,
                           spo2 |-> c.spo2, eeg |-> c.eeg])
    /\ plot' = update_plot(
                  [Time |-> time_buffer', HeartRate |-> hr_buffer',
                   SPO2 |-> spo2_buffer', EEG |-> eeg_buffer'], plot, 20, 80)
    /\ running' = ~plot'.raised
    /\ UNCHANGED window_size
    /\ UNCHANGED <<dispVars, pureVars>>

PureIdle ==
    /\ call = <<>>
    /\ ret = <<>>
    /\ pc = {}

BufIdle ==
    /\ window_size = 1
    /\ time_buffer = <<>>
    /\ hr_buffer = <<>>
    /\ spo2_buffer = <<>>
    /\ eeg_buffer = <<>>
    /\ fed = <<>>
    /\ plot = NoPlot
    /\ running = FALSE

----------------------------------------------------------------------------
(* RealTimeDisplay *)

PPG_SAMPLING_RATE == 100

\* the readings a serial line parses to: an ADC count, or float('nan')
PPGVals == {512, NaN}
EEGRawVals == {300, NaN}

\* a waveform of n samples: 0 everywhere, but 1 at every period-th sample
\* from the second on (period 0: flat)
Wave(n, period) ==
    [i \in 1..n |-> IF period > 0 /\ i >= 2 /\ (i - 2) % period = 0 THEN 1 ELSE 0]

\* the arrays the band-pass filter may return for n samples.  The arithmetic
\* of scipy.signal.sosfilt is not modelled: its output is one of these
\* waveforms, whatever the input values.
FilterWaves(n) == { Wave(n, 0), Wave(n, 25), Wave(n, 50) }

FirstNaN(data) ==
    IF HasNaN(data)
    THEN CHOOSE k \in 1..Len(data) :
            data[k] = NaN /\ \A j \in 1..(k - 1) : data[j] # NaN
    ELSE Len(data) + 1

\* filter_ppg(data, sos): the possible results.  Below 20 samples the input
\* itself; else a causal IIR filter's output, same length as the input, NaN
\* from the first NaN input on.
filter_ppg(data) ==
    IF Len(data) < 20 THEN {data}
    ELSE { [i \in 1..Len(data) |-> IF i >= FirstNaN(data) THEN NaN ELSE w[i]] :
             w \in FilterWaves(Len(data)) }

\* filter_eeg(data, sos, notch_b, notch_a): the possible results.  filtfilt
\* runs forward and backward, so one NaN input makes every output NaN.
filter_eeg(data) ==
    IF Len(data) < 20 THEN {data}
    ELSE { [i \in 1..Len(data) |-> IF HasNaN(data) THEN NaN ELSE w[i]] :
             w \in FilterWaves(Len(data)) }

\* (mutant) update recomputes as soon as the filters have their 20 samples
ShouldRecompute_20(raw) == Len(raw) > 20

\* if len(self.ppg_raw) > 50
ShouldRecompute(raw) == Len(raw) > 50

DispInit ==
    /\ time_data = <<>>
    /\ ppg_raw = <<>>
    /\ eeg_raw = <<>>
    /\ ppg_filt = <<>>
    /\ eeg_filt = <<>>
    /\ heart_rate = Zero
    /\ peaks = <<>>
    /\ clock = 0
    /\ branch = "none"
    /\ odd = 0

\* RealTimeDisplay.update when read_data returns (None, None): nothing is
\* waiting on the port, or the line does not parse to two floats
UpdateIdle ==
    /\ clock < MaxFrames
    /\ odd < MaxOdd
    /\ clock' = clock + 1
    /\ odd' = odd + 1
    /\ branch' = "idle"
    /\ UNCHANGED <<time_data, ppg_raw, eeg_raw, ppg_filt, eeg_filt,
                   heart_rate, peaks>>
    /\ UNCHANGED <<bufVars, pureVars>>

\* RealTimeDisplay.update when read_data returns the floats (ppg_val, eeg_val)
UpdateSample(ppg_val, eeg_val) ==
    /\ clock < MaxFrames
    /\ (ppg_val = NaN \/ eeg_val = NaN) => odd < MaxOdd
    /\ odd' = IF ppg_val = NaN \/ eeg_val = NaN THEN odd + 1 ELSE odd
    /\ clock' = clock + 1
    /\ time_data' = append(time_data, clock', DequeMaxLen)
    /\ ppg_raw' = append(ppg_raw, ppg_val, DequeMaxLen)
    /\ eeg_raw' = append(eeg_raw, eeg_val, DequeMaxLen)
    /\ IF ShouldRecompute(ppg_raw')
       THEN /\ branch' = "active"
            /\ \E ppg_filtered \in filter_ppg(ppg_raw') :
                 /\ ppg_filt' = deque(ppg_filtered, DequeMaxLen)
                 /\ peaks' = detect_peaks(ppg_filtered, PPG_SAMPLING_RATE).peaks
                 /\ heart_rate' =
                       IF Len(peaks') > 1
                       THEN calculate_heart_rate(peaks', PPG_SAMPLING_RATE)
                       ELSE heart_rate
            /\ \E eeg_filtered \in filter_eeg(eeg_raw') :
                 eeg_filt' = deque(eeg_filtered, DequeMaxLen)
       ELSE /\ branch' = "warming"
            /\ UNCHANGED <<ppg_filt, eeg_filt, peaks, heart_rate>>
    /\ UNCHANGED <<bufVars, pureVars>>

InitDisplay == BufIdle /\ DispInit /\ PureIdle

NextDisplay ==
    \/ UpdateIdle
    \/ \E ppg_val \in PPGVals : \E eeg_val \in EEGRawVals :
          UpdateSample(ppg_val, eeg_val)

SpecDisplay == InitDisplay /\ [][NextDisplay]_vars

----------------------------------------------------------------------------

InitBuffer == BufInit /\ DispInit /\ PureIdle

NextBuffer == \E t \in NextTimes : \E c \in Cells : MonitorStep(t, c)

SpecBuffer == InitBuffer /\ [][NextBuffer]_vars

----------------------------------------------------------------------------
(* C1 *)

FedTime == [i \in 1..Len(fed) |-> fed[i].time]
FedHR == [i \in 1..Len(fed) |-> fed[i].hr]
FedSpO2 == [i \in 1..Len(fed) |-> fed[i].spo2]

\* C1: the time, heart-rate and SpO2 buffers never hold more than window_size
\* entries, and after any number of updates each holds exactly the
\* min(updates, window_size) most recently pushed values, in arrival order.
C1_EvictionLaw ==
    LET n == Min(Len(fed), window_size) IN
    /\ Len(time_buffer) <= window_size
    /\ Len(hr_buffer) <= window_size
    /\ Len(spo2_buffer) <= window_size
    /\ time_buffer = LastN(FedTime, n)
    /\ hr_buffer = LastN(FedHR, n)
    /\ spo2_buffer = LastN(FedSpO2, n)

\* two rows past a capacity of two: the oldest two were evicted
C1_Witness ==
    /\ window_size = 2
    /\ Len(fed) = window_size + 2
    /\ Len(time_buffer) = window_size
    /\ fed[1].time # fed[3].time

----------------------------------------------------------------------------
(* C3 *)

WindowBuffers == <<time_buffer, hr_buffer, spo2_buffer, eeg_buffer>>

\* a row the specification calls invalid, given the window before the push
InvalidRow(r) ==
    \/ r.hr = NaN
    \/ r.spo2 = NaN
    \/ (r.eeg # <<>> /\ r.eeg[1] = NaN)
    \/ r.time < 0
    \/ (Len(time_buffer) > 0 /\ r.time <= time_buffer[Len(time_buffer)])

StrictlyIncreasing(s) == \A i \in 1..(Len(s) - 1) : s[i] < s[i + 1]

\* C3: a push of a NaN value, a negative timestamp or a timestamp not after
\* the previously accepted one leaves every window buffer unchanged, and so
\* the window's timestamps are strictly increasing.
C3_InvalidRejected ==
    [][/\ (Len(fed') = Len(fed) + 1 /\ InvalidRow(fed'[Len(fed')]))
            => UNCHANGED WindowBuffers
       /\ StrictlyIncreasing(time_buffer')]_vars

----------------------------------------------------------------------------
(* C4 *)

\* the row of fed whose timestamp the window holds at index i
RowAt(i) == fed[Len(fed) - Len(time_buffer) + i]

\* C4: every channel series get_data returns has the length of Time, and its
\* item at index i is the value of the sample whose timestamp is Time[i]
\* (for EEG: whenever get_data returns a series at all).
C4_ChannelsAligned ==
    LET data == get_data IN
    /\ Len(data.HeartRate) = Len(data.Time)
    /\ Len(data.SPO2) = Len(data.Time)
    /\ \A i \in 1..Len(data.Time) :
          /\ data.Time[i] = RowAt(i).time
          /\ data.HeartRate[i] = RowAt(i).hr
          /\ data.SPO2[i] = RowAt(i).spo2
    /\ Len(data.EEG) > 0 =>
          /\ Len(data.EEG) = Len(data.Time)
          /\ \A i \in 1..Len(data.Time) : RowAt(i).eeg = <<data.EEG[i]>>

----------------------------------------------------------------------------
(* draw_alert_boxes of both modules, called once on a flag series *)

\* the ascending sequence of the items of a finite set of integers
RECURSIVE SortedSeq(_)
SortedSeq(S) ==
    IF S = {} THEN <<>>
    ELSE LET m == CHOOSE x \in S : \A y \in S : x <= y
         IN <<m>> \o SortedSeq(S \ {m})

\* latest time stamp of a series handed to draw_alert_boxes
MaxTime == 6

\* the strictly increasing time series of at most MaxSeries stamps
TimeSeriesSet ==
    { SortedSeq(S) : S \in { T \in SUBSET (0..MaxTime) : Cardinality(T) <= MaxSeries } }

InitSeg ==
    /\ BufIdle
    /\ DispInit
    /\ \E ts \in TimeSeriesSet : \E fl \in [1..Len(ts) -> BOOLEAN] :
          call = [time_series |-> ts, abnormal_series |-> fl]
    /\ ret = [live |-> <<>>, batch |-> <<>>]
    /\ pc = {}

\* visualise_signals_realtime2.draw_alert_boxes(ax, time_series, abnormal_series)
DrawLive ==
    /\ "live" \notin pc
    /\ ret' = [ret EXCEPT !.live =
                  live_draw_alert_boxes(call.time_series, call.abnormal_series)]
    /\ pc' = pc \cup {"live"}
    /\ UNCHANGED <<call, bufVars, dispVars>>

\* visualise_signals.draw_alert_boxes(ax, time_series, abnormal_series)
DrawBatch ==
    /\ "batch" \notin pc
    /\ ret' = [ret EXCEPT !.batch =
                  batch_draw_alert_boxes(call.time_series, call.abnormal_series)]
    /\ pc' = pc \cup {"batch"}
    /\ UNCHANGED <<call, bufVars, dispVars>>

NextSeg == DrawLive \/ DrawBatch

SpecSeg == InitSeg /\ [][NextSeg]_vars

----------------------------------------------------------------------------
(* C5 *)

\* the (start_time, end_time) pairs of a sequence of rectangles
Segments(patches) ==
    [i \in 1..Len(patches) |-> <<patches[i].x, patches[i].x + patches[i].width>>]

\* the first indices of the maximal runs of true flags
RunStarts(fl) == { i \in 1..Len(fl) : fl[i] /\ (i = 1 \/ ~fl[i - 1]) }

\* the last index of the maximal run that starts at s
RunEnd(fl, s) ==
    CHOOSE e \in s..Len(fl) :
        /\ \A j \in s..e : fl[j]
        /\ (e = Len(fl) \/ ~fl[e + 1])

\* one (time of first index, time of last index) pair per maximal run, in
\* index order
MaximalRuns(ts, fl) ==
    LET starts == SortedSeq(RunStarts(fl)) IN
    [k \in 1..Len(starts) |-> <<ts[starts[k]], ts[RunEnd(fl, starts[k])]>>]

ExampleFlags == <<FALSE, TRUE, TRUE, FALSE, TRUE>>
ExampleTimes == <<0, 1, 2, 3, 4>>

\* C5: draw_alert_boxes (either module) emits exactly one segment per maximal
\* run of consecutive true indices, in index order, from the time of the run's
\* first index to the time of its last; none for an all-false series; and
\* (1,2), (4,4) for flags [F,T,T,F,T] at times [0,1,2,3,4].
C5_RunSegmentation ==
    LET expected == MaximalRuns(call.time_series, call.abnormal_series)
        example == /\ call.abnormal_series = ExampleFlags
                   /\ call.time_series = ExampleTimes
    IN
    /\ "live" \in pc =>
          /\ Segments(ret.live) = expected
          /\ example => Segments(ret.live) = << <<1, 2>>, <<4, 4>> >>
          /\ (\A i \in 1..Len(call.abnormal_series) : ~call.abnormal_series[i])
                => ret.live = <<>>
    /\ "batch" \in pc =>
          /\ Segments(ret.batch) = expected
          /\ example => Segments(ret.batch) = << <<1, 2>>, <<4, 4>> >>
          /\ (\A i \in 1..Len(call.abnormal_series) : ~call.abnormal_series[i])
                => ret.batch = <<>>

\* both modules have drawn a series with two runs whose adjacent true samples
\* are far apart in time
C5_Witness ==
    /\ pc = {"live", "batch"}
    /\ call.abnormal_series = ExampleFlags
    /\ call.time_series = <<0, 1, 4, 5, 6>>
    /\ Segments(ret.live) = << <<1, 4>>, <<6, 6>> >>
    /\ Len(ret.batch) = 2

----------------------------------------------------------------------------
(* C6 *)

\* the data frame visualize_combined reads from the P_ file holding rows
DfOf(rows) ==
    [Time |-> [i \in 1..Len(rows) |-> rows[i].time],
     HeartRate |-> [i \in 1..Len(rows) |-> rows[i].hr],
     SPO2 |-> [i \in 1..Len(rows) |-> rows[i].spo2]]

\* the rows that carry an EEG value, in order
RECURSIVE WithEEG(_)
WithEEG(rows) ==
    IF rows = <<>> THEN <<>>
    ELSE IF Head(rows).eeg # <<>> THEN <<Head(rows)>> \o WithEEG(Tail(rows))
    ELSE WithEEG(Tail(rows))

\* the data frame visualize_combined reads from the BIS_ file of the same rows
BisDfOf(rows) ==
    LET e == WithEEG(rows) IN
    [Time |-> [i \in 1..Len(e) |-> e[i].time],
     EEG |-> [i \in 1..Len(e) |-> e[i].eeg[1]]]

\* the batch path on rows: detect_abnormalities_* then draw_alert_boxes
BatchAlerts(rows) ==
    LET df == DfOf(rows)
        bis_df == BisDfOf(rows)
        p == batch_detect_abnormalities_p(df)
        abnormal_eeg == batch_detect_abnormalities_bis(bis_df, 20, 80)
    IN [abnormal_hr |-> p.abnormal_hr,
        abnormal_spo2 |-> p.abnormal_spo2,
        abnormal_eeg |-> abnormal_eeg,
        boxes_hr |-> batch_draw_alert_boxes(df.Time, p.abnormal_hr),
        boxes_spo2 |-> batch_draw_alert_boxes(df.Time, p.abnormal_spo2),
        boxes_eeg |-> batch_draw_alert_boxes(bis_df.Time, abnormal_eeg)]

EEGComplete(rows) == \A i \in 1..Len(rows) : rows[i].eeg # <<>>

\* the live path's flags and boxes are those of the batch path on rows
SameAlerts(live, batch, with_eeg) ==
    /\ live.abnormal_hr = batch.abnormal_hr
    /\ live.abnormal_spo2 = batch.abnormal_spo2
    /\ live.boxes_hr = batch.boxes_hr
    /\ live.boxes_spo2 = batch.boxes_spo2
    /\ with_eeg =>
          /\ live.abnormal_eeg = batch.abnormal_eeg
          /\ live.boxes_eeg = batch.boxes_eeg

\* C6 as claimed: for the same samples (each with its HeartRate, SpO2 and EEG
\* value) the live path, fed one row at a time, produces the flag series and
\* alert segments the batch path produces on the whole sequence.
C6_LiveEqualsBatchOnAll ==
    Len(fed) > 0 => SameAlerts(plot, BatchAlerts(fed), EEGComplete(fed))

\* C6 as amended: the live path produces the flag series and alert segments
\* the batch path produces on the last min(rows fed, window_size) rows; for
\* the EEG channel, when every row fed carried an EEG value.
C6_LiveEqualsBatchOnWindow ==
    Len(fed) > 0 =>
        SameAlerts(plot,
                   BatchAlerts(LastN(fed, Min(Len(fed), window_size))),
                   EEGComplete(fed))

\* rows were evicted, every row carried EEG, and the window shows alert boxes
C6_Witness ==
    /\ Len(fed) > window_size
    /\ window_size >= 2
    /\ EEGComplete(fed)
    /\ plot.boxes_hr # <<>>
    /\ plot.boxes_eeg # <<>>
    /\ \E i \in 1..Len(plot.abnormal_hr) : ~plot.abnormal_hr[i]

----------------------------------------------------------------------------
(* detect_abnormalities_p and detect_abnormalities_bis of both modules,    *)
(* called once                                                             *)

HRVals == {49, 50, 120, 121, NaN}
SpO2Vals == {85, 89, 90, 95}
EEGVals == {19, 20, 80, 81, NaN}
\* (low_threshold, high_threshold): the defaults and one other setting
Thresholds == { <<20, 80>>, <<19, 81>> }

SeqsUpTo(S, n) == UNION { [1..k -> S] : k \in 0..n }

InitClassify ==
    /\ BufIdle
    /\ DispInit
    /\ \/ \E rows \in SeqsUpTo(HRVals \X SpO2Vals, MaxRows) :
             call = [fn |-> "p",
                     HeartRate |-> [i \in 1..Len(rows) |-> rows[i][1]],
                     SPO2 |-> [i \in 1..Len(rows) |-> rows[i][2]]]
       \/ \E eeg \in SeqsUpTo(EEGVals, MaxRows) : \E th \in Thresholds :
             call = [fn |-> "bis", EEG |-> eeg,
                     low_threshold |-> th[1], high_threshold |-> th[2]]
    /\ ret = [live |-> <<>>, batch |-> <<>>]
    /\ pc = {}

\* visualise_signals_realtime2.detect_abnormalities_p(hr_data, spo2_data)
LiveDetectP ==
    /\ call.fn = "p"
    /\ "live" \notin pc
    /\ ret' = [ret EXCEPT !.live =
                  live_detect_abnormalities_p(call.HeartRate, call.SPO2)]
    /\ pc' = pc \cup {"live"}
    /\ UNCHANGED <<call, bufVars, dispVars>>

\* visualise_signals.detect_abnormalities_p(df)
BatchDetectP ==
    /\ call.fn = "p"
    /\ "batch" \notin pc
    /\ ret' = [ret EXCEPT !.batch = batch_detect_abnormalities_p(call)]
    /\ pc' = pc \cup {"batch"}
    /\ UNCHANGED <<call, bufVars, dispVars>>

\* visualise_signals_realtime2.detect_abnormalities_bis(eeg_data, low, high)
LiveDetectBis ==
    /\ call.fn = "bis"
    /\ "live" \notin pc
    /\ ret' = [ret EXCEPT !.live =
                  live_detect_abnormalities_bis(call.EEG, call.low_threshold,
                                                call.high_threshold)]
    /\ pc' = pc \cup {"live"}
    /\ UNCHANGED <<call, bufVars, dispVars>>

\* visualise_signals.detect_abnormalities_bis(df, low, high)
BatchDetectBis ==
    /\ call.fn = "bis"
    /\ "batch" \notin pc
    /\ ret' = [ret EXCEPT !.batch =
                  batch_detect_abnormalities_bis(call, call.low_threshold,
                                                 call.high_threshold)]
    /\ pc' = pc \cup {"batch"}
    /\ UNCHANGED <<call, bufVars, dispVars>>

NextClassify == LiveDetectP \/ BatchDetectP \/ LiveDetectBis \/ BatchDetectBis

SpecClassify == InitClassify /\ [][NextClassify]_vars

----------------------------------------------------------------------------
(* C9 *)

\* the rules of the specification on one value; NaN is below and above nothing
RuleHR(v) == v # NaN /\ (v < 50 \/ v > 120)
RuleSpO2(v) == v # NaN /\ v < 90
RuleEEG(v, low, high) == v # NaN /\ (v < low \/ v > high)

FlagsP(r) ==
    /\ DOMAIN r.abnormal_hr = 1..Len(call.HeartRate)
    /\ DOMAIN r.abnormal_spo2 = 1..Len(call.SPO2)
    /\ \A i \in 1..Len(call.HeartRate) :
          /\ r.abnormal_hr[i] = RuleHR(call.HeartRate[i])
          /\ r.abnormal_spo2[i] = RuleSpO2(call.SPO2[i])
          /\ call.HeartRate[i] \in {50, 120} => ~r.abnormal_hr[i]
          /\ call.SPO2[i] = 85 => r.abnormal_spo2[i]
          /\ call.SPO2[i] \in {90, 95} => ~r.abnormal_spo2[i]

FlagsBis(r) ==
    /\ DOMAIN r = 1..Len(call.EEG)
    /\ \A i \in 1..Len(call.EEG) :
          /\ r[i] = RuleEEG(call.EEG[i], call.low_threshold, call.high_threshold)
          /\ call.EEG[i] \in {call.low_threshold, call.high_threshold} => ~r[i]

\* C9: in both modules the flag of sample i is decided by sample i's own value
\* alone: HeartRate abnormal iff < 50 or > 120, SpO2 abnormal iff < 90, EEG
\* abnormal iff < low_threshold or > high_threshold, the bounds being normal.
C9_PerSampleRules ==
    /\ (call.fn = "p" /\ "live" \in pc) => FlagsP(ret.live)
    /\ (call.fn = "p" /\ "batch" \in pc) => FlagsP(ret.batch)
    /\ (call.fn = "bis" /\ "live" \in pc) => FlagsBis(ret.live)
    /\ (call.fn = "bis" /\ "batch" \in pc) => FlagsBis(ret.batch)

\* both modules classified a series holding the boundary 90 next to an
\* abnormal neighbour
C9_Witness ==
    /\ call.fn = "p"
    /\ pc = {"live", "batch"}
    /\ call.SPO2 = <<85, 90>>
    /\ call.HeartRate = <<120, 121>>
    /\ ret.live.abnormal_spo2 = <<TRUE, FALSE>>
    /\ ret.batch.abnormal_hr = <<FALSE, TRUE>>

----------------------------------------------------------------------------
(* detect_peaks, called once on a waveform *)

\* longest waveform handed to detect_peaks; the shortest is one sample shorter
MaxWave == 10
WaveVals == {0, 1, 2}
\* rate 1 gives distance 0, 6 and 7 both give distance 3
Rates == {1, 6, 7}

InitPeaks ==
    /\ BufIdle
    /\ DispInit
    /\ \E n \in (MaxWave - 1)..MaxWave : \E w \in [1..n -> WaveVals] : \E r \in Rates :
          call = [ppg_data |-> w, rate |-> r]
    /\ ret = [raised |-> FALSE, peaks |-> <<>>]
    /\ pc = {}

DetectPeaks ==
    /\ pc = {}
    /\ ret' = detect_peaks(call.ppg_data, call.rate)
    /\ pc' = {"done"}
    /\ UNCHANGED <<call, bufVars, dispVars>>

NextPeaks == DetectPeaks

SpecPeaks == InitPeaks /\ [][NextPeaks]_vars

----------------------------------------------------------------------------
(* C7 *)

\* C7: detect_peaks returns, for every waveform and rate, a strictly
\* increasing index sequence with no two peaks closer than 0.5 * rate samples,
\* and the empty sequence when given fewer than 10 samples.
C7_MinPeakSpacing ==
    "done" \in pc =>
        /\ ~ret.raised
        /\ \A i \in 1..(Len(ret.peaks) - 1) :
              /\ ret.peaks[i] < ret.peaks[i + 1]
              /\ 2 * (ret.peaks[i + 1] - ret.peaks[i]) >= call.rate
        /\ Len(call.ppg_data) < 10 => ret.peaks = <<>>

----------------------------------------------------------------------------
(* calculate_heart_rate, called once on a peak sequence *)

\* sample indices peaks are drawn from
PeakIndices == {0, 10, 30, 50, 100, 150, 200}
\* most peaks in one call
MaxPeaks == 3
HRRates == {50, 100}

InitHR ==
    /\ BufIdle
    /\ DispInit
    /\ \E P \in { T \in SUBSET PeakIndices : Cardinality(T) <= MaxPeaks } :
       \E r \in HRRates :
          call = [peaks |-> SortedSeq(P), rate |-> r]
    /\ ret = Zero
    /\ pc = {}

CalculateHeartRate ==
    /\ pc = {}
    /\ ret' = calculate_heart_rate(call.peaks, call.rate)
    /\ pc' = {"done"}
    /\ UNCHANGED <<call, bufVars, dispVars>>

NextHR == CalculateHeartRate

SpecHR == InitHR /\ [][NextHR]_vars

----------------------------------------------------------------------------
(* C8 *)

\* the rational a/b equals the rational r.num/r.den
IsRatio(r, a, b) == r.num * b = a * r.den

\* 60 / (mean inter-peak interval in seconds), as the rational a/b: the mean
\* of the k-1 intervals between k increasing peaks is (last - first)/(k-1)
\* samples, that is (last - first)/((k-1)*rate) seconds
RawRateNum(pks, rate) == 60 * rate * (Len(pks) - 1)
RawRateDen(pks) == pks[Len(pks)] - pks[1]

\* C8: calculate_heart_rate returns 0 for fewer than 2 peaks; otherwise it
\* returns 60 / mean(inter-peak interval in seconds) if that lies strictly
\* between 40 and 200, and 0 if not (40 and 200 are rejected).  Peaks
\* [0,50,100] at 100 Hz give 120, peaks [0,10] at 100 Hz give 0.
C8_HeartRate ==
    "done" \in pc =>
        LET k == Len(call.peaks) IN
        /\ k < 2 => IsRatio(ret, 0, 1)
        /\ k >= 2 =>
              LET a == RawRateNum(call.peaks, call.rate)
                  b == RawRateDen(call.peaks)
              IN IF 40 * b < a /\ a < 200 * b
                 THEN IsRatio(ret, a, b)
                 ELSE IsRatio(ret, 0, 1)
        /\ (call.peaks = <<0, 50, 100>> /\ call.rate = 100) => IsRatio(ret, 120, 1)
        /\ (call.peaks = <<0, 10>> /\ call.rate = 100) => IsRatio(ret, 0, 1)

\* a rate of exactly 40 bpm (one interval of 1.5 s) was computed and rejected
C8_Witness ==
    /\ "done" \in pc
    /\ call.peaks = <<0, 150>>
    /\ call.rate = 100
    /\ RawRateNum(call.peaks, call.rate) = 40 * RawRateDen(call.peaks)
    /\ ret = Zero

----------------------------------------------------------------------------
(* C2 *)

\* C2: after every update that accepts a sample and recomputes, heart_rate
\* is the rate of the peak set just detected when that set has at least 2
\* peaks and its rate lies in (40, 200), and 0 in every other case.
C2_HeartRateNeverStale ==
    branch = "active" =>
        IF Len(peaks) >= 2
        THEN LET a == RawRateNum(peaks, PPG_SAMPLING_RATE)
                 b == RawRateDen(peaks)
             IN IF 40 * b < a /\ a < 200 * b
                THEN IsRatio(heart_rate, a, b)
                ELSE heart_rate = Zero
        ELSE heart_rate = Zero

----------------------------------------------------------------------------
(* C10 *)

\* the last call of update accepted a sample
Accepted == branch \in {"warming", "active"}

\* C10 as claimed: a session starts with empty buffers, and a push makes or
\* keeps it Active (the derived state is recomputed on that push) as soon as
\* the buffer is longer than the minimum history of the filters, 20 samples.
C10_ActiveAboveFilterHistory ==
    /\ branch = "none" => (time_data = <<>> /\ ppg_raw = <<>> /\ eeg_raw = <<>>)
    /\ Accepted => (branch = "active" <=> Len(ppg_raw) > 20)

\* the gate as the code has it, on a state
GateState ==
    /\ branch = "none" => (time_data = <<>> /\ ppg_raw = <<>> /\ eeg_raw = <<>>)
    /\ Accepted => (branch = "active" <=> Len(ppg_raw) > 50)
    /\ Len(ppg_raw) <= 50 =>
          (ppg_filt = <<>> /\ eeg_filt = <<>> /\ peaks = <<>> /\ heart_rate = Zero)
    /\ branch = "active" =>
          (Len(ppg_filt) = Len(ppg_raw) /\ Len(eeg_filt) = Len(eeg_raw))
    /\ Len(ppg_raw) <= DequeMaxLen

\* the gate as the code has it, on a step
GateStep ==
    /\ Len(ppg_raw) > 50 => Len(ppg_raw') > 50
    /\ (Len(ppg_raw) > 50 /\ branch' \in {"warming", "active"})
          => branch' = "active"

\* C10 as amended: a session starts with empty buffers; a push recomputes the
\* derived state exactly when it leaves more than 50 samples in the buffer, and
\* until then no filtered view, peak or heart rate exists; once the buffer
\* holds more than 50 samples it never holds fewer again, so every later
\* accepted push recomputes.
C10_WarmUpGate == []GateState /\ [][GateStep]_vars

\* the window is full, its oldest sample was evicted, and the push recomputed
C10_Witness ==
    /\ branch = "active"
    /\ Len(ppg_raw) = DequeMaxLen
    /\ time_data[1] > 1
    /\ Len(ppg_filt) = DequeMaxLen

----------------------------------------------------------------------------
(* C11 *)

\* C11: after every update that accepts a sample, from the first sample on and
\* past capacity, the filtered views ppg_filt and eeg_filt hold as many
\* elements as time_data, ppg_raw and eeg_raw, so that set_data and the log
\* pair each timestamp with the filtered value of the same sample.
C11_SnapshotConsistent ==
    Accepted =>
        /\ Len(ppg_raw) = Len(time_data)
        /\ Len(eeg_raw) = Len(time_data)
        /\ Len(ppg_filt) = Len(time_data)
        /\ Len(eeg_filt) = Len(time_data)

====
